---- MODULE Spec2Model ----
(***************************************************************************)
(* The crawl engine of src/crawler.py (class AsyncCrawler) as a state      *)
(* machine: the frontier, the visited and enqueued ledgers, the rounds of  *)
(* crawl_with_pages and the fetch tasks of a round.                        *)
(*                                                                         *)
(* A string the code inspects character by character (a host name, a path, *)
(* an extension, a prefix) is a sequence of one-character strings.  A URL  *)
(* is held as the components urlparse gives for its normalized string:     *)
(* [scheme, hostname, path, query].                                        *)
(***************************************************************************)
EXTENDS Integers, Sequences, FiniteSets, TLC

(***************************************************************************)
(* Bounds of the model.                                                    *)
(***************************************************************************)
\* max_pages is drawn from 0..MaxPagesIn
MaxPagesIn == 5
\* max_depth is drawn from -1..MaxDepthIn
MaxDepthIn == 2
\* max_concurrent_requests is drawn from 0..MaxConcurrentIn
MaxConcurrentIn == 2

\* _combine_pages is called on lists of up to MaxPagesCombined PageRecords
MaxPagesCombined == 3
\* a function called on its own is called MaxCalls times
MaxCalls == 2
\* _normalize_url is called on strings of up to MaxUrlLen characters after the scheme
MaxUrlLen == 4
\* the integers passed in are up to MaxOff away from 0, from 1 and from the clamp
MaxOff == 1

\* the upper clamp of max_pages (crawler.py:59)
PageCap == 500
\* the defaults of __init__ (crawler.py:48-55)
DefaultMaxPages == 50
DefaultCrawlTimeout == 90
DefaultMaxDepth == 4
DefaultMaxConcurrentRequests == 5

(***************************************************************************)
(* Strings as character sequences.                                         *)
(***************************************************************************)
Max(a, b) == IF a >= b THEN a ELSE b
Min(a, b) == IF a <= b THEN a ELSE b

\* str.endswith
EndsWith(s, suf) ==
    /\ Len(suf) <= Len(s)
    /\ SubSeq(s, Len(s) - Len(suf) + 1, Len(s)) = suf

\* str.startswith
StartsWith(s, pre) ==
    /\ Len(pre) <= Len(s)
    /\ SubSeq(s, 1, Len(pre)) = pre

LowerChar(c) ==
    CASE c = "A" -> "a" [] c = "B" -> "b" [] c = "C" -> "c" [] c = "D" -> "d"
      [] c = "E" -> "e" [] c = "F" -> "f" [] c = "G" -> "g" [] c = "H" -> "h"
      [] c = "I" -> "i" [] c = "J" -> "j" [] c = "K" -> "k" [] c = "L" -> "l"
      [] c = "M" -> "m" [] c = "N" -> "n" [] c = "O" -> "o" [] c = "P" -> "p"
      [] c = "Q" -> "q" [] c = "R" -> "r" [] c = "S" -> "s" [] c = "T" -> "t"
      [] c = "U" -> "u" [] c = "V" -> "v" [] c = "W" -> "w" [] c = "X" -> "x"
      [] c = "Y" -> "y" [] c = "Z" -> "z" [] OTHER -> c

\* str.lower
Lower(s) == [i \in 1..Len(s) |-> LowerChar(s[i])]

RECURSIVE Strip(_)
\* str.strip, for the blank
Strip(s) ==
    IF s = <<>> THEN s
    ELSE IF Head(s) = " " THEN Strip(Tail(s))
    ELSE IF s[Len(s)] = " " THEN Strip(SubSeq(s, 1, Len(s) - 1))
    ELSE s

RECURSIVE Split(_, _)
\* str.split(sep) for a one-character separator
Split(s, sep) ==
    IF \A i \in 1..Len(s) : s[i] # sep THEN <<s>>
    ELSE LET i == CHOOSE k \in 1..Len(s) :
                      s[k] = sep /\ \A j \in 1..(k - 1) : s[j] # sep
         IN  <<SubSeq(s, 1, i - 1)>> \o Split(SubSeq(s, i + 1, Len(s)), sep)

RECURSIVE Join(_, _)
\* sep.join(parts)
Join(parts, sep) ==
    IF parts = <<>> THEN <<>>
    ELSE IF Len(parts) = 1 THEN parts[1]
    ELSE parts[1] \o <<sep>> \o Join(Tail(parts), sep)

\* IGNORED_EXTENSIONS
IGNORED_EXTENSIONS ==
    { <<".", "p", "n", "g">>, <<".", "j", "p", "g">>, <<".", "j", "p", "e", "g">>,
      <<".", "g", "i", "f">>, <<".", "s", "v", "g">>, <<".", "i", "c", "o">>,
      <<".", "c", "s", "s">>, <<".", "j", "s">>, <<".", "p", "d", "f">>,
      <<".", "z", "i", "p">>, <<".", "t", "a", "r">>, <<".", "g", "z">>,
      <<".", "r", "a", "r">>, <<".", "m", "p", "4">>, <<".", "m", "p", "3">>,
      <<".", "w", "a", "v">> }

(***************************************************************************)
(* The URLs of the modelled site, as urlparse gives them.                  *)
(***************************************************************************)
HostX == <<"x", ".", "t", "e", "s", "t">>
HostSub == <<"s", "u", "b", ".", "x", ".", "t", "e", "s", "t">>
HostOther == <<"o", "t", "h", "e", "r", ".", "t", "e", "s", "t">>
HostNotX == <<"n", "o", "t", "x", ".", "t", "e", "s", "t">>

Url(scheme, hostname, path) ==
    [scheme |-> scheme, hostname |-> hostname, path |-> path, query |-> <<>>]

\* https://x.test
UrlRoot == Url("https", HostX, <<>>)
\* https://x.test/a
UrlA == Url("https", HostX, <<"/", "a">>)
\* https://x.test/a/b
UrlAB == Url("https", HostX, <<"/", "a", "/", "b">>)
\* https://x.test/c
UrlC == Url("https", HostX, <<"/", "c">>)
\* https://x.test/b.PNG
UrlImg == Url("https", HostX, <<"/", "b", ".", "P", "N", "G">>)
\* https://sub.x.test/a
UrlSub == Url("https", HostSub, <<"/", "a">>)
\* https://other.test
UrlOther == Url("https", HostOther, <<>>)
\* https://notx.test/a
UrlNotX == Url("https", HostNotX, <<"/", "a">>)
\* mailto:a
UrlMail == Url("mailto", <<>>, <<"a">>)

VARIABLES
    self,       \* the AsyncCrawler object: configuration, visited, enqueued, queue, errors, timed_out
    pages,      \* crawl_with_pages: the PageRecords collected
    tasks,      \* crawl_with_pages: the tasks of the current round, with their state and result
    task_urls,  \* crawl_with_pages: the (url, depth) of each task of the current round
    semaphore,  \* the free permits of the asyncio.Semaphore
    elapsed,    \* time.monotonic() - start_time
    pc,         \* where crawl_with_pages stands
    ri,         \* the index of the for loop over zip(task_urls, results)
    current_url,\* crawl_with_pages: the loop variable of the batch loop
    fetched,    \* history: the URL of every client.get issued, in order
    dispatched, \* history: every (url, depth) appended to task_urls, in order
    enqlog,     \* history: every link pushed onto the queue, with the page it came from
    served,     \* history: every GET answered, as (url, answer)
    reply,      \* main.py: what the request handler answers
    call,       \* a function called on its own: its name and its argument
    ret         \* the values the calls of that function returned, in order

vars == <<self, pages, tasks, task_urls, semaphore, elapsed, pc, ri, current_url,
          fetched, dispatched, enqlog, served, reply, call, ret>>

(***************************************************************************)
(* AsyncCrawler.__init__ and the URL classifier.                           *)
(***************************************************************************)
RECURSIVE normalize_hosts(_)
\* _normalize_hosts: empty entries are dropped, the others stripped and lower-cased
normalize_hosts(hosts) ==
    IF hosts = <<>> THEN <<>>
    ELSE IF Head(hosts) = <<>> THEN normalize_hosts(Tail(hosts))
    ELSE <<Lower(Strip(Head(hosts)))>> \o normalize_hosts(Tail(hosts))

RECURSIVE normalize_prefixes(_)
\* _normalize_prefixes: empty entries are dropped, the others stripped
normalize_prefixes(prefixes) ==
    IF prefixes = <<>> THEN <<>>
    ELSE IF Head(prefixes) = <<>> THEN normalize_prefixes(Tail(prefixes))
    ELSE <<Strip(Head(prefixes))>> \o normalize_prefixes(Tail(prefixes))

\* _extract_root_domain: the last two labels of the lower-cased host name
extract_root_domain(hostname) ==
    IF hostname = <<>> THEN <<>>
    ELSE LET parts == Split(Lower(hostname), ".")
         IN  IF Len(parts) >= 2
             THEN Join(SubSeq(parts, Len(parts) - 1, Len(parts)), ".")
             ELSE Lower(hostname)

\* __init__: the object after construction
NewCrawler(start_url, max_pages, crawl_timeout, include_subdomains, allowed_hosts, path_prefixes, max_depth, max_concurrent_requests) ==
    [ start_url               |-> start_url,
      max_pages               |-> Max(1, Min(max_pages, PageCap)),
      crawl_timeout           |-> crawl_timeout,
      include_subdomains      |-> include_subdomains,
      max_depth               |-> Max(0, max_depth),
      max_concurrent_requests |-> Max(1, max_concurrent_requests),
      allowed_hosts           |-> normalize_hosts(allowed_hosts),
      path_prefixes           |-> normalize_prefixes(path_prefixes),
      root_domain             |-> extract_root_domain(start_url.hostname),
      visited                 |-> {},
      enqueued                |-> {start_url},
      queue                   |-> <<<<start_url, 0>>>>,
      errors                  |-> <<>>,
      timed_out               |-> FALSE ]

\* the allow-list as one more way in: a host off the list still passes on the root domain
is_internal_link_root_fallback(url) ==
    IF url.scheme \notin {"", "http", "https"} THEN FALSE
    ELSE LET hostname == Lower(url.hostname) IN
         \/ hostname = <<>>
         \/ \E i \in 1..Len(self.allowed_hosts) :
                \/ hostname = self.allowed_hosts[i]
                \/ EndsWith(hostname, <<".">> \o self.allowed_hosts[i])
         \/ hostname = self.root_domain
         \/ self.include_subdomains /\ EndsWith(hostname, <<".">> \o self.root_domain)

\* _is_internal_link
is_internal_link(url) ==
    IF url.scheme \notin {"", "http", "https"} THEN FALSE
    ELSE LET hostname == Lower(url.hostname) IN
         IF hostname = <<>> THEN TRUE
         ELSE IF self.allowed_hosts # <<>>
         THEN \E i \in 1..Len(self.allowed_hosts) :
                  \/ hostname = self.allowed_hosts[i]
                  \/ EndsWith(hostname, <<".">> \o self.allowed_hosts[i])
         ELSE IF hostname = self.root_domain THEN TRUE
         ELSE IF /\ self.include_subdomains
                 /\ EndsWith(hostname, <<".">> \o self.root_domain) THEN TRUE
         ELSE FALSE

\* _matches_path_prefix
matches_path_prefix(url) ==
    IF self.path_prefixes = <<>> THEN TRUE
    ELSE LET path == IF url.path # <<>> THEN url.path ELSE <<"/">>
             path_with_query ==
                 IF url.query # <<>> THEN path \o <<"?">> \o url.query ELSE path
         IN  \E i \in 1..Len(self.path_prefixes) :
                 StartsWith(path_with_query, self.path_prefixes[i])

\* the extension compared without lower-casing the path
has_ignored_extension_case_sensitive(url) ==
    \E ext \in IGNORED_EXTENSIONS : EndsWith(url.path, ext)

\* _has_ignored_extension
has_ignored_extension(url) ==
    LET path == Lower(url.path)
    IN  \E ext \in IGNORED_EXTENSIONS : EndsWith(path, ext)

\* _is_allowed_url
is_allowed_url(url) ==
    IF has_ignored_extension(url) THEN FALSE
    ELSE IF ~is_internal_link(url) THEN FALSE
    ELSE IF ~matches_path_prefix(url) THEN FALSE
    ELSE TRUE

(***************************************************************************)
(* The HTTP client: what client.get may answer.  A response body is held   *)
(* as the anchors of the document, each already resolved against the page  *)
(* URL and normalized, and as whether the text is the empty string.        *)
(***************************************************************************)
\* no content: _fetch_content's None
None == [none |-> TRUE, empty |-> TRUE, anchors |-> <<>>]
\* response.text of an empty body
EmptyText == [none |-> FALSE, empty |-> TRUE, anchors |-> <<>>]
\* response.text of a document with these anchors
Html(anchors) == [none |-> FALSE, empty |-> FALSE, anchors |-> anchors]

Documents ==
    { Html(<<>>),
      Html(<<UrlA, UrlImg, UrlOther>>),
      Html(<<UrlA, UrlImg, UrlOther, UrlA, UrlC, UrlAB>>),
      Html(<<UrlAB, UrlRoot, UrlSub, UrlNotX, UrlMail>>) }

Response(status_code, content_type, text) ==
    [kind |-> "response", status_code |-> status_code,
     content_type |-> content_type, text |-> text]

\* an exception raised by client.get
Raises(kind) ==
    [kind |-> kind, status_code |-> 0, content_type |-> "", text |-> None]

Responses ==
    {Response(200, "text/html; charset=utf-8", d) : d \in Documents}
        \cup { Response(200, "text/html", EmptyText),
               Response(404, "text/html", Html(<<>>)),
               Response(200, "application/pdf", Html(<<>>)),
               Raises("TimeoutException"),
               Raises("ConnectError") }

\* "text/html" in content_type
HasTextHtml(content_type) ==
    content_type \in {"text/html", "text/html; charset=utf-8"}

\* the record _record_error appends
ErrorRecord(url, reason, status) ==
    [url |-> url, reason |-> reason, status |-> status]

StatusText(status_code) ==
    CASE status_code = 200 -> "200" [] status_code = 404 -> "404" [] OTHER -> ""

(***************************************************************************)
(* _fetch_content: the value returned, the ErrorRecords appended, and      *)
(* whether the call raises.  httpx.TimeoutException has a handler of its   *)
(* own.  Any other httpx.HTTPError (a ConnectError here) reaches the last  *)
(* handler, which evaluates exc.response; an httpx that knows              *)
(* follow_redirects (line 178) gives only HTTPStatusError a response       *)
(* attribute, so the handler raises AttributeError before _record_error.   *)
(***************************************************************************)
fetch_content(url, response) ==
    IF response.kind = "response"
    THEN IF response.status_code = 200 /\ HasTextHtml(response.content_type)
         THEN [raised |-> FALSE, value |-> response.text, errors |-> <<>>]
         ELSE [raised |-> FALSE, value |-> None,
               errors |-> <<ErrorRecord(url, "non-200 or non-html",
                                        StatusText(response.status_code))>>]
    ELSE IF response.kind = "TimeoutException"
    THEN [raised |-> FALSE, value |-> None,
          errors |-> <<ErrorRecord(url, "timeout", "")>>]
    ELSE [raised |-> TRUE, value |-> None, errors |-> <<>>]

RECURSIVE extract_links(_)
\* _extract_links: the anchors that are allowed and neither visited nor enqueued
extract_links(anchors) ==
    IF anchors = <<>> THEN <<>>
    ELSE LET absolute_url == Head(anchors) IN
         IF ~is_allowed_url(absolute_url) THEN extract_links(Tail(anchors))
         ELSE IF absolute_url \notin self.visited /\ absolute_url \notin self.enqueued
         THEN <<absolute_url>> \o extract_links(Tail(anchors))
         ELSE extract_links(Tail(anchors))

\* the PageRecord _process_url builds (title and markdown come from the converters)
PageRecord(url) ==
    [ url  |-> url,
      host |-> IF url.hostname # <<>> THEN url.hostname ELSE self.root_domain,
      path |-> LET path == IF url.path # <<>> THEN url.path ELSE <<"/">>
               IN  IF url.query # <<>> THEN path \o <<"?">> \o url.query ELSE path ]

\* _process_url: result is <<>> for None, else <<page_record, links>>
process_url(url, response) ==
    LET got == fetch_content(url, response) IN
    IF got.raised
    THEN [raised |-> TRUE, result |-> <<>>, anchors |-> <<>>, errors |-> got.errors]
    ELSE IF got.value.none \/ got.value.empty
    THEN [raised |-> FALSE, result |-> <<>>, anchors |-> <<>>, errors |-> got.errors]
    ELSE [raised |-> FALSE, anchors |-> got.value.anchors,
          result |-> <<PageRecord(url), extract_links(got.value.anchors)>>,
          errors |-> got.errors]

(***************************************************************************)
(* _combine_pages.  The document is held as its lines, a line as a         *)
(* sequence of strings; the empty line is <<>>.  The title and the         *)
(* markdown of a page come from the converters, which are not modelled:    *)
(* a page has no title, and its markdown is one line that names the page.  *)
(***************************************************************************)
\* the characters of the host names, in the order of their code points
CodePoints ==
    << " ", "-", ".", "0", "1", "2", "3", "4", "5", "6", "7", "8", "9",
       "a", "b", "c", "d", "e", "f", "g", "h", "i", "j", "k", "l", "m",
       "n", "o", "p", "q", "r", "s", "t", "u", "v", "w", "x", "y", "z" >>

\* ord
Ord(c) == CHOOSE k \in 1..Len(CodePoints) : CodePoints[k] = c

RECURSIVE StrLess(_, _)
\* a < b for two str
StrLess(a, b) ==
    IF b = <<>> THEN FALSE
    ELSE IF a = <<>> THEN TRUE
    ELSE IF Head(a) = Head(b) THEN StrLess(Tail(a), Tail(b))
    ELSE Ord(Head(a)) < Ord(Head(b))

RECURSIVE SortedDescending(_)
\* sorted(keys, reverse=True)
SortedDescending(keys) ==
    IF keys = {} THEN <<>>
    ELSE LET last == CHOOSE k \in keys : \A other \in keys \ {k} : StrLess(other, k)
         IN  <<last>> \o SortedDescending(keys \ {last})

RECURSIVE Sorted(_)
\* sorted(keys)
Sorted(keys) ==
    IF keys = {} THEN <<>>
    ELSE LET first == CHOOSE k \in keys : \A other \in keys \ {k} : StrLess(k, other)
         IN  <<first>> \o Sorted(keys \ {first})

RECURSIVE Str(_)
\* an int formatted in decimal
Str(n) ==
    LET digit == <<"0", "1", "2", "3", "4", "5", "6", "7", "8", "9">>[(n % 10) + 1]
    IN  IF n < 10 THEN <<digit>> ELSE Str(n \div 10) \o <<digit>>

\* the string of a URL: urlunparse of its components
UrlString(url) ==
    (IF url.hostname # <<>> THEN <<url.scheme, "://">> \o url.hostname
                            ELSE <<url.scheme, ":">>)
        \o url.path \o (IF url.query # <<>> THEN <<"?">> \o url.query ELSE <<>>)

\* page.markdown.strip(): one line that names the page
MarkdownOf(page) == <<"(markdown of) ">> \o UrlString(page.url)

RECURSIVE RStrip(_)
\* str.rstrip, for the blank
RStrip(line) ==
    IF line # <<>> /\ line[Len(line)] = " " THEN RStrip(SubSeq(line, 1, Len(line) - 1))
    ELSE line

RECURSIVE CollapseBlankLines(_)
\* re.sub(r"\n{3,}", "\n\n", content): of a run of empty lines one is kept
CollapseBlankLines(lines) ==
    IF Len(lines) < 2 THEN lines
    ELSE IF lines[1] = <<>> /\ lines[2] = <<>> THEN CollapseBlankLines(Tail(lines))
    ELSE <<lines[1]>> \o CollapseBlankLines(Tail(lines))

RECURSIVE StripBlankLines(_)
\* str.strip of the document: the empty lines at both ends go
StripBlankLines(lines) ==
    IF lines = <<>> THEN lines
    ELSE IF Head(lines) = <<>> THEN StripBlankLines(Tail(lines))
    ELSE IF lines[Len(lines)] = <<>> THEN StripBlankLines(SubSeq(lines, 1, Len(lines) - 1))
    ELSE lines

\* _normalize_markdown
normalize_markdown(content) ==
    IF content = <<>> THEN <<>>
    ELSE LET collapsed == CollapseBlankLines(content)
             trimmed_lines == [i \in 1..Len(collapsed) |-> RStrip(collapsed[i])]
         IN  StripBlankLines(trimmed_lines)

\* the line of one ErrorRecord in the summary (lines 314-321)
ErrorLine(err) ==
    <<"  - ">> \o UrlString(err.url) \o
        (IF err.status # "" THEN <<" (", err.reason, " ", err.status, ")">>
                            ELSE <<" (", err.reason, ")">>)

\* lines 310-327: the summary
SummaryLines(pages_) ==
    << <<"<!-- Crawl summary:">>,
       <<"Total pages: ">> \o Str(Len(pages_)),
       <<"Errors: ">> \o Str(Len(self.errors)) >>
    \o [k \in 1..Min(Len(self.errors), 20) |-> ErrorLine(self.errors[k])]
    \o (IF self.timed_out
        THEN << <<"Crawl timed out after ">> \o Str(self.crawl_timeout) \o <<" seconds.">> >>
        ELSE <<>>)
    \o << <<"-->">> >>

\* line 331: the key a page is grouped under
HostKey(page) ==
    IF page.host # <<>> THEN page.host
    ELSE IF self.root_domain # <<>> THEN self.root_domain
    ELSE <<"u", "n", "k", "n", "o", "w", "n", " ", "h", "o", "s", "t">>

\* pages_by_host[host]: the pages of a host, in the order of the list
PagesOfHost(pages_, host) ==
    LET at == {i \in 1..Len(pages_) : HostKey(pages_[i]) = host}
        RECURSIVE pick(_)
        pick(i) == IF i > Len(pages_) THEN <<>>
                   ELSE IF i \in at THEN <<pages_[i]>> \o pick(i + 1)
                   ELSE pick(i + 1)
    IN  pick(1)

RECURSIVE PageLines(_)
\* lines 337-340: "## title", an empty line and the body of each page of a host
PageLines(host_pages) ==
    IF host_pages = <<>> THEN <<>>
    ELSE << <<>>, <<"## ">> \o Head(host_pages).path, <<>>, MarkdownOf(Head(host_pages)) >>
             \o PageLines(Tail(host_pages))

RECURSIVE HostSections(_, _)
\* lines 334-343: the sections of the hosts, "---" between two of them
HostSections(pages_, hosts) ==
    IF hosts = <<>> THEN <<>>
    ELSE << <<"# ">> \o Head(hosts) >> \o PageLines(PagesOfHost(pages_, Head(hosts)))
             \o (IF Len(hosts) > 1
                 THEN << <<>>, <<"---">>, <<>> >> \o HostSections(pages_, Tail(hosts))
                 ELSE <<>>)

\* _combine_pages
combine_pages(pages_) ==
    LET hosts == Sorted({HostKey(pages_[i]) : i \in 1..Len(pages_)})
        combined == SummaryLines(pages_) \o << <<>> >> \o HostSections(pages_, hosts)
    IN  normalize_markdown(combined)

(***************************************************************************)
(* crawl_with_pages.                                                       *)
(*   pc = "loop"      the test of the round loop (line 252)                *)
(*   pc = "build"     the batch loop (lines 260-277)                       *)
(*   pc = "gather"    awaiting asyncio.gather (line 282)                   *)
(*   pc = "integrate" the loop over the results (lines 283-299)            *)
(*   pc = "returned"  return pages (line 301)                              *)
(*   pc = "raised"    an exception left crawl_with_pages                   *)
(***************************************************************************)
\* the inputs of the constructor that decide the scope of a crawl
Scope(start_url, include_subdomains, allowed_hosts, path_prefixes) ==
    [start_url |-> start_url, include_subdomains |-> include_subdomains,
     allowed_hosts |-> allowed_hosts, path_prefixes |-> path_prefixes]

RawSub == <<" ", "S", "u", "b", ".", "X", ".", "t", "e", "s", "t">>
PrefixA == <<"/", "a">>

ScopesIn ==
    { Scope(UrlRoot, TRUE, <<>>, <<>>),
      Scope(UrlRoot, FALSE, <<>>, <<>>),
      Scope(UrlSub, FALSE, <<RawSub>>, <<>>),
      Scope(UrlRoot, TRUE, <<RawSub>>, <<>>),
      Scope(UrlA, TRUE, <<>>, <<<<>>, PrefixA>>),
      Scope(UrlSub, FALSE, <<>>, <<>>),
      Scope(UrlImg, TRUE, <<>>, <<>>) }

CrawlTimeoutsIn == {0}

\* no request has been answered
NoReply == [endpoint |-> "", status_code |-> 0, persisted |-> FALSE, body |-> <<>>]

\* no function is called on its own: the crawl runs
NoCall == [fn |-> "", arg |-> <<>>]

Init ==
    /\ \E scope \in ScopesIn, max_pages \in 0..MaxPagesIn,
          crawl_timeout \in CrawlTimeoutsIn,
          max_depth \in -1..MaxDepthIn, max_concurrent_requests \in 0..MaxConcurrentIn :
          self = NewCrawler(scope.start_url, max_pages, crawl_timeout,
                            scope.include_subdomains, scope.allowed_hosts,
                            scope.path_prefixes, max_depth, max_concurrent_requests)
    /\ pages = <<>>
    /\ tasks = <<>>
    /\ task_urls = <<>>
    /\ semaphore = self.max_concurrent_requests
    /\ elapsed = 0
    /\ pc = "loop"
    /\ ri = 1
    /\ current_url = self.start_url
    /\ fetched = <<>>
    /\ dispatched = <<>>
    /\ enqlog = <<>>
    /\ served = {}
    /\ reply = NoReply
    /\ call = NoCall
    /\ ret = <<>>

\* the budget taken as inclusive
WithinBudgetInclusive(n) == n <= self.max_pages

\* a count is below the page budget (lines 252, 263; line 292 is its negation)
WithinBudget(n) == n < self.max_pages

\* the comparison turned round
DeadlinePassedReversed == elapsed < self.crawl_timeout

\* the deadline test (line 253)
DeadlinePassed == elapsed > self.crawl_timeout

\* the batch loop without the concurrency limit
BatchHasRoomUnlimited ==
    /\ self.queue # <<>>
    /\ self.max_pages > Len(pages) + Len(tasks)

\* the condition of the batch loop (lines 261-263)
BatchHasRoom ==
    /\ self.queue # <<>>
    /\ Len(tasks) < self.max_concurrent_requests
    /\ WithinBudget(Len(pages) + Len(tasks))

\* deque.popleft: what is left of the queue
PopLeft(queue) == Tail(queue)

\* deque.appendleft
EnqueueFront(queue, entry) == <<entry>> \o queue

\* deque.append
Enqueue(queue, entry) == Append(queue, entry)

\* the visited test alone
DispatchableUnscoped(url) == url \notin self.visited

\* the two tests a popped entry passes to be dispatched (lines 266-269)
Dispatchable(url) ==
    IF url \in self.visited THEN FALSE
    ELSE IF ~is_allowed_url(url) THEN FALSE
    ELSE TRUE

\* the depth of the page tested instead of the depth of the link
DepthAllowedOfPage(next_depth) == ~(next_depth - 1 > self.max_depth)

\* the depth test of a discovered link (line 290)
DepthAllowed(next_depth) == ~(next_depth > self.max_depth)

\* url read from the loop variable when the task runs
TaskUrlLateBound(i) == current_url

\* the URL a task fetches: _task's default argument url=current_url (line 273)
TaskUrl(i) == tasks[i].url

\* line 252 true, line 253 false: a round starts
StartRound ==
    /\ pc = "loop"
    /\ self.queue # <<>> /\ WithinBudget(Len(pages))
    /\ ~DeadlinePassed
    /\ pc' = "build"
    /\ tasks' = <<>>
    /\ task_urls' = <<>>
    /\ UNCHANGED <<self, pages, semaphore, elapsed, ri, current_url,
                   fetched, dispatched, enqlog,
                   served, reply, call, ret>>

\* lines 253-256: the deadline has passed
DeadlineExit ==
    /\ pc = "loop"
    /\ self.queue # <<>> /\ WithinBudget(Len(pages))
    /\ DeadlinePassed
    /\ self' = [self EXCEPT !.timed_out = TRUE]
    /\ pc' = "returned"
    /\ UNCHANGED <<pages, tasks, task_urls, semaphore, elapsed, ri, current_url,
                   fetched, dispatched, enqlog,
                   served, reply, call, ret>>

\* line 252 false: the queue is empty or the budget is reached
LoopExit ==
    /\ pc = "loop"
    /\ ~(self.queue # <<>> /\ WithinBudget(Len(pages)))
    /\ pc' = "returned"
    /\ UNCHANGED <<self, pages, tasks, task_urls, semaphore, elapsed, ri, current_url,
                   fetched, dispatched, enqlog,
                   served, reply, call, ret>>

\* lines 265-277: one turn of the batch loop
PopFrontier ==
    /\ pc = "build"
    /\ BatchHasRoom
    /\ LET url == Head(self.queue)[1]
           depth == Head(self.queue)[2]
       IN  /\ current_url' = url
           /\ IF Dispatchable(url)
              THEN /\ self' = [self EXCEPT !.queue = PopLeft(self.queue),
                                           !.visited = @ \cup {url}]
                   /\ task_urls' = Append(task_urls, <<url, depth>>)
                   /\ tasks' = Append(tasks, [st |-> "created", url |-> url,
                                              anchors |-> <<>>, result |-> <<>>])
                   /\ dispatched' = Append(dispatched, <<url, depth>>)
              ELSE /\ self' = [self EXCEPT !.queue = PopLeft(self.queue)]
                   /\ UNCHANGED <<task_urls, tasks, dispatched>>
    /\ UNCHANGED <<pages, semaphore, elapsed, pc, ri, fetched, enqlog,
                   served, reply, call, ret>>

\* lines 279-280: the batch is empty
EmptyBatchExit ==
    /\ pc = "build"
    /\ ~BatchHasRoom
    /\ tasks = <<>>
    /\ pc' = "returned"
    /\ UNCHANGED <<self, pages, tasks, task_urls, semaphore, elapsed, ri, current_url,
                   fetched, dispatched, enqlog,
                   served, reply, call, ret>>

\* line 282: the round is awaited
AwaitGather ==
    /\ pc = "build"
    /\ ~BatchHasRoom
    /\ tasks # <<>>
    /\ pc' = "gather"
    /\ UNCHANGED <<self, pages, tasks, task_urls, semaphore, elapsed, ri, current_url,
                   fetched, dispatched, enqlog,
                   served, reply, call, ret>>

\* lines 274-275, 178: task i takes a permit and issues its GET.  The event loop
\* runs the tasks in the order they were created.
TaskStart(i) ==
    /\ pc \in {"gather", "raised"}
    /\ tasks[i].st = "created"
    /\ \A j \in 1..(i - 1) : tasks[j].st # "created"
    /\ semaphore > 0
    /\ semaphore' = semaphore - 1
    /\ tasks' = [tasks EXCEPT ![i].st = "fetching", ![i].url = TaskUrl(i)]
    /\ fetched' = Append(fetched, TaskUrl(i))
    /\ UNCHANGED <<self, pages, task_urls, elapsed, pc, ri, current_url,
                   dispatched, enqlog,
                   served, reply, call, ret>>

\* lines 178-187, 223-242, 274: the GET of task i is answered, _process_url runs to
\* its end and the permit is given back.  A task that can take a permit has taken
\* it before any answer arrives.
TaskFinish(i, response) ==
    /\ pc \in {"gather", "raised"}
    /\ tasks[i].st = "fetching"
    /\ \A j \in 1..Len(tasks) : tasks[j].st = "created" => semaphore = 0
    /\ LET done == process_url(tasks[i].url, response)
       IN  /\ tasks' = [tasks EXCEPT ![i].st = IF done.raised THEN "raised" ELSE "done",
                                     ![i].anchors = done.anchors,
                                     ![i].result = done.result]
           /\ self' = [self EXCEPT !.errors = @ \o done.errors]
    /\ semaphore' = semaphore + 1
    /\ served' = served \cup {<<tasks[i].url, response>>}
    /\ UNCHANGED <<pages, task_urls, elapsed, pc, ri, current_url,
                   fetched, dispatched, enqlog,
                   reply, call, ret>>

\* the round awaited like asyncio.wait(return_when=FIRST_COMPLETED)
RoundAwaitedFirstCompleted == \E i \in 1..Len(tasks) : tasks[i].st = "done"

\* asyncio.gather(*tasks) has its results: every task has returned (line 282)
RoundAwaited == \A i \in 1..Len(tasks) : tasks[i].st = "done"

\* line 282: every task has returned, gather gives the results in task order
GatherReturn ==
    /\ pc = "gather"
    /\ RoundAwaited
    /\ pc' = "integrate"
    /\ ri' = 1
    /\ UNCHANGED <<self, pages, tasks, task_urls, semaphore, elapsed, current_url,
                   fetched, dispatched, enqlog,
                   served, reply, call, ret>>

\* line 282: a task has raised; gather, without return_exceptions, raises it in
\* crawl_with_pages, which has no handler.  The other tasks are not cancelled.
GatherRaise ==
    /\ pc = "gather"
    /\ \E i \in 1..Len(tasks) : tasks[i].st = "raised"
    /\ pc' = "raised"
    /\ UNCHANGED <<self, pages, tasks, task_urls, semaphore, elapsed, ri, current_url,
                   fetched, dispatched, enqlog,
                   served, reply, call, ret>>

\* the URLs waiting in the queue only
KnownUrlsQueued(queue) == Len(queue)

\* len(self.visited) + len(self.queue) (line 292)
KnownUrls(queue) == Cardinality(self.visited) + Len(queue)

\* the visited test alone
SeenVisitedOnly(link, enqueued) == link \in self.visited

\* link in self.visited or link in self.enqueued (line 296)
Seen(link, enqueued) == link \in self.visited \/ link \in enqueued

RECURSIVE AdmitLinks(_, _, _)
\* lines 288-299: the links of one page; acc is [queue, enqueued, added]
AdmitLinks(links, depth, acc) ==
    IF links = <<>> THEN acc
    ELSE LET link == Head(links)
             next_depth == depth + 1
         IN  IF ~DepthAllowed(next_depth) THEN AdmitLinks(Tail(links), depth, acc)
             ELSE IF ~WithinBudget(KnownUrls(acc.queue)) THEN acc
             ELSE IF ~is_allowed_url(link) THEN AdmitLinks(Tail(links), depth, acc)
             ELSE IF Seen(link, acc.enqueued)
             THEN AdmitLinks(Tail(links), depth, acc)
             ELSE AdmitLinks(Tail(links), depth,
                      [queue    |-> Enqueue(acc.queue, <<link, next_depth>>),
                       enqueued |-> acc.enqueued \cup {link},
                       added    |-> Append(acc.added, <<link, next_depth>>)])

\* the results taken in the reverse of the order of the tasks
GatherResultReversed(k) == tasks[Len(tasks) + 1 - k].result

\* results[k] of asyncio.gather(*tasks): what the k-th task returned (lines 282-283)
GatherResult(k) == tasks[k].result

\* lines 283-299: one turn of the loop over zip(task_urls, results)
Integrate ==
    /\ pc = "integrate"
    /\ ri <= Len(tasks)
    /\ ri' = ri + 1
    /\ LET url == task_urls[ri][1]
           depth == task_urls[ri][2]
           result == GatherResult(ri)
       IN  IF result = <<>>
           THEN UNCHANGED <<self, pages, enqlog>>
           ELSE LET acc == AdmitLinks(result[2], depth,
                                      [queue |-> self.queue,
                                       enqueued |-> self.enqueued,
                                       added |-> <<>>])
                IN  /\ pages' = Append(pages, result[1])
                    /\ self' = [self EXCEPT !.queue = acc.queue,
                                            !.enqueued = acc.enqueued]
                    /\ enqlog' = enqlog \o
                           [k \in 1..Len(acc.added) |->
                               [url |-> acc.added[k][1], depth |-> acc.added[k][2],
                                via |-> url, via_depth |-> depth]]
    /\ UNCHANGED <<tasks, task_urls, semaphore, elapsed, pc, current_url,
                   fetched, dispatched,
                   served, reply, call, ret>>

\* the loop over the results is over: back to line 252
IntegrateDone ==
    /\ pc = "integrate"
    /\ ri > Len(tasks)
    /\ pc' = "loop"
    /\ UNCHANGED <<self, pages, tasks, task_urls, semaphore, elapsed, ri, current_url,
                   fetched, dispatched, enqlog,
                   served, reply, call, ret>>

\* time passes.  The clock is read at line 253 only, so it is enough to let it
\* advance right before that test, and to stop it one tick past the deadline:
\* every later reading compares the same.
Tick ==
    /\ pc = "loop"
    /\ elapsed <= self.crawl_timeout
    /\ elapsed' = elapsed + 1
    /\ UNCHANGED <<self, pages, tasks, task_urls, semaphore, pc, ri, current_url,
                   fetched, dispatched, enqlog,
                   served, reply, call, ret>>

\* main.py lines 65-87: /generate after "await crawler.crawl()", which is
\* crawl_with_pages followed by _combine_pages (crawler.py:303-305).  The handler
\* constructs its crawler with include_subdomains=True.
GenerateKnowledgebase ==
    /\ pc = "returned"
    /\ reply = NoReply
    /\ self.include_subdomains
    /\ LET markdown_content == combine_pages(pages)
       IN  IF markdown_content = <<>>
           THEN reply' = [endpoint |-> "/generate", status_code |-> 400,
                          persisted |-> FALSE, body |-> <<>>]
           ELSE reply' = [endpoint |-> "/generate", status_code |-> 200,
                          persisted |-> TRUE, body |-> markdown_content]
    /\ UNCHANGED <<self, pages, tasks, task_urls, semaphore, elapsed, pc, ri, current_url,
                   fetched, dispatched, enqlog, served, call, ret>>

\* main.py lines 111-134: /crawl-preview after "await crawler.crawl_with_pages()";
\* of an entry of the preview the id, url, host and path are kept
CrawlPreview ==
    /\ pc = "returned"
    /\ reply = NoReply
    /\ self.include_subdomains
    /\ IF pages = <<>>
       THEN reply' = [endpoint |-> "/crawl-preview", status_code |-> 400,
                      persisted |-> FALSE, body |-> <<>>]
       ELSE reply' = [endpoint |-> "/crawl-preview", status_code |-> 200,
                      persisted |-> FALSE,
                      body |-> [idx \in 1..Len(pages) |->
                                   [id |-> idx - 1, url |-> pages[idx].url,
                                    host |-> pages[idx].host, path |-> pages[idx].path]]]
    /\ UNCHANGED <<self, pages, tasks, task_urls, semaphore, elapsed, pc, ri, current_url,
                   fetched, dispatched, enqlog, served, call, ret>>

\* the steps of crawl_with_pages itself
CrawlStep ==
    \/ StartRound
    \/ DeadlineExit
    \/ LoopExit
    \/ PopFrontier
    \/ EmptyBatchExit
    \/ AwaitGather
    \/ GatherReturn
    \/ GatherRaise
    \/ Integrate
    \/ IntegrateDone

\* the steps of the tasks of a round
TaskStep ==
    \/ \E i \in 1..Len(tasks) : TaskStart(i)
    \/ \E i \in 1..Len(tasks), response \in Responses : TaskFinish(i, response)

\* the request handler answers
RequestStep ==
    \/ GenerateKnowledgebase
    \/ CrawlPreview

Next == CrawlStep \/ TaskStep \/ Tick \/ RequestStep

Spec == Init /\ [][Next]_vars

\* the event loop runs every step that is ready, and every GET is answered
LiveSpec == Spec /\ WF_vars(CrawlStep) /\ WF_vars(TaskStep)

(***************************************************************************)
(* Functions called on their own, on arguments drawn from bounded sets.    *)
(***************************************************************************)
\* the crawl of the object has not started
NotStarted ==
    /\ pages = <<>>
    /\ tasks = <<>>
    /\ task_urls = <<>>
    /\ semaphore = self.max_concurrent_requests
    /\ elapsed = 0
    /\ pc = "loop"
    /\ ri = 1
    /\ current_url = self.start_url
    /\ fetched = <<>>
    /\ dispatched = <<>>
    /\ enqlog = <<>>
    /\ served = {}
    /\ reply = NoReply
    /\ ret = <<>>

\* str.find(c): the place of the first c, 0 if there is none
Find(s, c) ==
    IF \A i \in 1..Len(s) : s[i] # c THEN 0
    ELSE CHOOSE k \in 1..Len(s) : s[k] = c /\ \A j \in 1..(k - 1) : s[j] # c

\* str.isalpha, for ASCII
Letters ==
    { "a", "b", "c", "d", "e", "f", "g", "h", "i", "j", "k", "l", "m",
      "n", "o", "p", "q", "r", "s", "t", "u", "v", "w", "x", "y", "z",
      "A", "B", "C", "D", "E", "F", "G", "H", "I", "J", "K", "L", "M",
      "N", "O", "P", "Q", "R", "S", "T", "U", "V", "W", "X", "Y", "Z" }

\* urllib.parse.scheme_chars
scheme_chars ==
    Letters \cup {"0", "1", "2", "3", "4", "5", "6", "7", "8", "9", "+", "-", "."}

\* urllib.parse.uses_netloc, the schemes of up to five letters without a sign
uses_netloc ==
    { <<>>, <<"f", "t", "p">>, <<"h", "t", "t", "p">>, <<"h", "t", "t", "p", "s">>,
      <<"f", "i", "l", "e">>, <<"n", "n", "t", "p">>, <<"i", "m", "a", "p">>,
      <<"w", "a", "i", "s">>, <<"m", "m", "s">>, <<"s", "h", "t", "t", "p">>,
      <<"s", "n", "e", "w", "s">>, <<"r", "t", "s", "p">>, <<"r", "t", "s", "p", "u">>,
      <<"r", "s", "y", "n", "c">>, <<"s", "v", "n">>, <<"s", "f", "t", "p">>,
      <<"n", "f", "s">>, <<"g", "i", "t">>, <<"w", "s">>, <<"w", "s", "s">> }

RECURSIVE LStrip(_)
\* str.lstrip, for the blank
LStrip(s) == IF s # <<>> /\ Head(s) = " " THEN LStrip(Tail(s)) ELSE s

\* urllib.parse._splitnetloc(url, 2): the netloc ends before the first of / ? #
splitnetloc(url) ==
    LET rest == SubSeq(url, 3, Len(url))
        ends == {k \in 1..Len(rest) : rest[k] \in {"/", "?", "#"}}
        delim == IF ends = {} THEN Len(rest) + 1
                 ELSE CHOOSE k \in ends : \A j \in ends : k <= j
    IN  [netloc |-> SubSeq(rest, 1, delim - 1), url |-> SubSeq(rest, delim, Len(rest))]

\* urllib.parse.urlparse, for a string without ; and without brackets
urlparse(url_) ==
    LET stripped == LStrip(url_)
        i == Find(stripped, ":")
        has_scheme == /\ i > 1
                      /\ stripped[1] \in Letters
                      /\ \A k \in 1..(i - 1) : stripped[k] \in scheme_chars
        scheme == IF has_scheme THEN Lower(SubSeq(stripped, 1, i - 1)) ELSE <<>>
        url1 == IF has_scheme THEN SubSeq(stripped, i + 1, Len(stripped)) ELSE stripped
        has_netloc == Len(url1) >= 2 /\ url1[1] = "/" /\ url1[2] = "/"
        netloc == IF has_netloc THEN splitnetloc(url1).netloc ELSE <<>>
        url2 == IF has_netloc THEN splitnetloc(url1).url ELSE url1
        h == Find(url2, "#")
        fragment == IF h > 0 THEN SubSeq(url2, h + 1, Len(url2)) ELSE <<>>
        url3 == IF h > 0 THEN SubSeq(url2, 1, h - 1) ELSE url2
        q == Find(url3, "?")
        query == IF q > 0 THEN SubSeq(url3, q + 1, Len(url3)) ELSE <<>>
        path == IF q > 0 THEN SubSeq(url3, 1, q - 1) ELSE url3
    IN  [scheme |-> scheme, netloc |-> netloc, path |-> path,
         query |-> query, fragment |-> fragment]

\* urllib.parse.urlunparse, for empty params
urlunparse(parsed) ==
    LET with_netloc ==
            \/ parsed.netloc # <<>>
            \/ /\ parsed.scheme # <<>>
               /\ parsed.scheme \in uses_netloc
               /\ ~StartsWith(parsed.path, <<"/", "/">>)
        rooted == IF parsed.path # <<>> /\ Head(parsed.path) # "/"
                  THEN <<"/">> \o parsed.path ELSE parsed.path
        url1 == IF with_netloc THEN <<"/", "/">> \o parsed.netloc \o rooted
                ELSE parsed.path
        url2 == IF parsed.scheme # <<>> THEN parsed.scheme \o <<":">> \o url1 ELSE url1
        url3 == IF parsed.query # <<>> THEN url2 \o <<"?">> \o parsed.query ELSE url2
    IN  IF parsed.fragment # <<>> THEN url3 \o <<"#">> \o parsed.fragment ELSE url3

RECURSIVE RStripSlash(_)
\* str.rstrip("/")
RStripSlash(s) ==
    IF s # <<>> /\ s[Len(s)] = "/" THEN RStripSlash(SubSeq(s, 1, Len(s) - 1)) ELSE s

\* _normalize_url with the trailing slash kept
normalize_url_keep_slash(url_) ==
    IF url_ = <<>> THEN <<>>
    ELSE LET parsed == urlparse(url_)
             filled == IF parsed.scheme = <<>>
                       THEN urlparse(<<"h", "t", "t", "p", "s", ":", "/", "/">> \o url_)
                       ELSE parsed
         IN  urlunparse([filled EXCEPT !.fragment = <<>>])

\* _normalize_url
normalize_url(url_) ==
    IF url_ = <<>> THEN <<>>
    ELSE LET parsed == urlparse(url_)
             filled == IF parsed.scheme = <<>>
                       THEN urlparse(<<"h", "t", "t", "p", "s", ":", "/", "/">> \o url_)
                       ELSE parsed
             normalized == urlunparse([filled EXCEPT !.fragment = <<>>])
         IN  IF RStripSlash(normalized) # <<>> THEN RStripSlash(normalized) ELSE normalized

\* "example.com/a/" and "https://example.com/a"
ExampleBare ==
    <<"e", "x", "a", "m", "p", "l", "e", ".", "c", "o", "m", "/", "a", "/">>
ExampleNormal ==
    <<"h", "t", "t", "p", "s", ":", "/", "/",
      "e", "x", "a", "m", "p", "l", "e", ".", "c", "o", "m", "/", "a">>

\* the strings _normalize_url is called on: up to MaxUrlLen characters, bare or
\* after "https://", and the two examples
UrlStringsIn ==
    LET tails == UNION {[1..n -> {"e", "/", "?", "#", ":"}] : n \in 0..MaxUrlLen}
    IN  tails \cup {<<"h", "t", "t", "p", "s", ":", "/", "/">> \o tail : tail \in tails}
              \cup {ExampleBare, ExampleNormal}

\* a string to normalize; the object is the one of the defaults
NormalizeInit ==
    /\ self = NewCrawler(UrlRoot, DefaultMaxPages, DefaultCrawlTimeout, TRUE,
                         <<>>, <<>>, DefaultMaxDepth, DefaultMaxConcurrentRequests)
    /\ \E url \in UrlStringsIn : call = [fn |-> "_normalize_url", arg |-> url]
    /\ NotStarted

\* _normalize_url is called, first on the string, then on what it returned
NormalizeUrl ==
    /\ call.fn = "_normalize_url"
    /\ Len(ret) < MaxCalls
    /\ ret' = Append(ret, normalize_url(IF ret = <<>> THEN call.arg ELSE ret[Len(ret)]))
    /\ UNCHANGED <<self, pages, tasks, task_urls, semaphore, elapsed, pc, ri, current_url,
                   fetched, dispatched, enqlog, served, reply, call>>

\* an Optional[int]: None, or an int
NoneInt == [none |-> TRUE, int |-> 0]
SomeInt(n) == [none |-> FALSE, int |-> n]

\* _clamp_max_pages without the lower clamp
clamp_max_pages_unfloored(raw_value) ==
    LET pages_ == IF raw_value.none \/ raw_value.int = 0 THEN 1 ELSE raw_value.int
    IN  Min(pages_, PageCap)

\* main._clamp_max_pages: "raw_value or 1" is 1 for None and for 0
clamp_max_pages(raw_value) ==
    LET pages_ == IF raw_value.none \/ raw_value.int = 0 THEN 1 ELSE raw_value.int
    IN  Max(1, Min(pages_, PageCap))

\* the integers passed for max_pages: around 0 and 1 and around the clamp
MaxPagesArgsIn ==
    {SomeInt(n) : n \in ((0 - MaxOff)..(1 + MaxOff)) \cup ((PageCap - MaxOff)..(PageCap + MaxOff))}

\* the integers passed for max_depth and max_concurrent_requests
SmallArgsIn == {SomeInt(n) : n \in (0 - MaxOff)..(1 + MaxOff)}

\* an argument of __init__ that is not passed takes its default
Passed(argument, default) == IF argument.none THEN default ELSE argument.int

\* a raw value of the form field max_pages
ClampInit ==
    /\ self = NewCrawler(UrlRoot, DefaultMaxPages, DefaultCrawlTimeout, TRUE,
                         <<>>, <<>>, DefaultMaxDepth, DefaultMaxConcurrentRequests)
    /\ \E raw_value \in MaxPagesArgsIn \cup {NoneInt} :
           call = [fn |-> "_clamp_max_pages", arg |-> raw_value]
    /\ NotStarted

\* _clamp_max_pages(raw_value) is called
ClampMaxPages ==
    /\ call.fn = "_clamp_max_pages"
    /\ Len(ret) < MaxCalls
    /\ ret' = Append(ret, clamp_max_pages(call.arg))
    /\ UNCHANGED <<self, pages, tasks, task_urls, semaphore, elapsed, pc, ri, current_url,
                   fetched, dispatched, enqlog, served, reply, call>>

\* the numbers __init__ is called with, each an int or not passed
ConstructInit ==
    /\ self = NewCrawler(UrlRoot, DefaultMaxPages, DefaultCrawlTimeout, TRUE,
                         <<>>, <<>>, DefaultMaxDepth, DefaultMaxConcurrentRequests)
    /\ \E max_pages \in MaxPagesArgsIn \cup {NoneInt},
          max_depth \in SmallArgsIn \cup {NoneInt},
          max_concurrent_requests \in SmallArgsIn \cup {NoneInt} :
           call = [fn |-> "__init__",
                   arg |-> [max_pages |-> max_pages, max_depth |-> max_depth,
                            max_concurrent_requests |-> max_concurrent_requests]]
    /\ NotStarted

\* AsyncCrawler(start_url, ...) is called: the object it leaves
Construct ==
    /\ call.fn = "__init__"
    /\ Len(ret) < MaxCalls
    /\ self' = NewCrawler(UrlRoot, Passed(call.arg.max_pages, DefaultMaxPages),
                          DefaultCrawlTimeout, TRUE, <<>>, <<>>,
                          Passed(call.arg.max_depth, DefaultMaxDepth),
                          Passed(call.arg.max_concurrent_requests,
                                 DefaultMaxConcurrentRequests))
    /\ ret' = Append(ret, self')
    /\ UNCHANGED <<pages, tasks, task_urls, semaphore, elapsed, pc, ri, current_url,
                   fetched, dispatched, enqlog, served, reply, call>>

\* the lists of PageRecords _combine_pages is called on
PageListsIn ==
    LET records == {PageRecord(url) : url \in {UrlRoot, UrlA, UrlSub, UrlOther, UrlMail}}
    IN  UNION {[1..n -> records] : n \in 0..MaxPagesCombined}

\* the error lists _combine_pages is called with
ErrorListsIn ==
    { <<>>, <<ErrorRecord(UrlC, "timeout", ""), ErrorRecord(UrlAB, "non-200 or non-html", "404")>> }

\* an object whose crawl left these errors and this flag, and a list of PageRecords
CombineInit ==
    /\ \E start_url \in {UrlRoot, UrlMail}, errors \in ErrorListsIn, timed_out \in BOOLEAN :
           self = [NewCrawler(start_url, DefaultMaxPages, DefaultCrawlTimeout, TRUE,
                              <<>>, <<>>, DefaultMaxDepth, DefaultMaxConcurrentRequests)
                   EXCEPT !.errors = errors, !.timed_out = timed_out]
    /\ \E page_list \in PageListsIn : call = [fn |-> "_combine_pages", arg |-> page_list]
    /\ NotStarted

\* _combine_pages(pages) is called; it changes neither the list nor the object
CombinePages ==
    /\ call.fn = "_combine_pages"
    /\ Len(ret) < MaxCalls
    /\ ret' = Append(ret, combine_pages(call.arg))
    /\ UNCHANGED <<self, pages, tasks, task_urls, semaphore, elapsed, pc, ri, current_url,
                   fetched, dispatched, enqlog, served, reply, call>>

FnInit == NormalizeInit \/ ClampInit \/ ConstructInit \/ CombineInit

FnNext == NormalizeUrl \/ ClampMaxPages \/ Construct \/ CombinePages

FnSpec == FnInit /\ [][FnNext]_vars

(***************************************************************************)
(* Properties.                                                             *)
(***************************************************************************)
\* no element occurs twice in the sequence
NoRepeat(seq) == \A i, j \in 1..Len(seq) : i # j => seq[i] # seq[j]

DispatchedUrls == {dispatched[i][1] : i \in 1..Len(dispatched)}

\* C1: no URL is requested twice and no URL is dispatched twice; the visited
\* set is exactly the set of dispatched URLs, so a URL is dispatched only when
\* it is not yet visited, and a URL with an ErrorRecord is not requested again.
C1_DedupNoRetry ==
    /\ NoRepeat(fetched)
    /\ NoRepeat([i \in 1..Len(dispatched) |-> dispatched[i][1]])
    /\ self.visited = DispatchedUrls
    /\ {fetched[i] : i \in 1..Len(fetched)} \subseteq self.visited
    /\ \A k \in 1..Len(self.errors) :
           Cardinality({i \in 1..Len(fetched) : fetched[i] = self.errors[k].url}) = 1

\* a page of a later round links to a URL that failed before, and the crawl ends
\* without a second request for it
C1_Witness ==
    /\ pc = "integrate"
    /\ \E i \in 1..Len(tasks), k \in 1..Len(self.errors) :
           /\ tasks[i].st = "done"
           /\ \E n \in 1..Len(tasks[i].anchors) :
                  tasks[i].anchors[n] = self.errors[k].url
           /\ self.errors[k].url # tasks[i].url
           /\ is_allowed_url(self.errors[k].url)

\* C2: in every state the number of PageRecords collected is at most max_pages.
C2_PageBudget == Len(pages) <= self.max_pages

\* the crawl returns with the budget used up by several pages
C2_Witness ==
    /\ pc = "returned"
    /\ self.max_pages >= 2
    /\ Len(pages) = self.max_pages

\* C3: every frontier entry and every dispatched URL has a depth in 0..max_depth,
\* every PageRecord is of a dispatched URL, the start URL is dispatched at depth 0,
\* a link is enqueued at the depth of its page plus one, and with max_depth = 0
\* nothing but the start URL is dispatched.
C3_DepthCap ==
    /\ \A i \in 1..Len(self.queue) :
           self.queue[i][2] >= 0 /\ self.queue[i][2] <= self.max_depth
    /\ \A i \in 1..Len(dispatched) :
           /\ dispatched[i][2] >= 0 /\ dispatched[i][2] <= self.max_depth
           /\ dispatched[i][1] = self.start_url => dispatched[i][2] = 0
    /\ \A i \in 1..Len(pages) : pages[i].url \in DispatchedUrls
    /\ \A k \in 1..Len(enqlog) :
           /\ enqlog[k].depth = enqlog[k].via_depth + 1
           /\ enqlog[k].depth <= self.max_depth
    /\ self.max_depth = 0 => DispatchedUrls \subseteq {self.start_url}

\* a page at depth max_depth has links that are new and allowed, the budget has
\* room, and none of them was enqueued
C3_Witness ==
    /\ pc = "integrate"
    /\ ri > 1
    /\ tasks[ri - 1].result # <<>>
    /\ tasks[ri - 1].result[2] # <<>>
    /\ task_urls[ri - 1][2] = self.max_depth
    /\ Cardinality(self.visited) + Len(self.queue) < self.max_pages
    /\ \A n \in 1..Len(tasks[ri - 1].result[2]) :
           tasks[ri - 1].result[2][n] \notin self.enqueued

\* C4: every URL dispatched, visited or requested satisfies _is_allowed_url, so
\* an entry that fails it is popped without being marked visited or fetched.
C4_Scope ==
    \A url \in self.visited \cup DispatchedUrls \cup {fetched[i] : i \in 1..Len(fetched)} :
        is_allowed_url(url)

\* the start URL fails the gate: it was popped, nothing is visited or fetched
C4_Witness ==
    /\ pc = "returned"
    /\ ~is_allowed_url(self.start_url)
    /\ self.queue = <<>>
    /\ self.visited = {}
    /\ fetched = <<>>

\* every entry pushed onto the queue, in the order of the pushes
EnqueueOrder ==
    <<<<self.start_url, 0>>>> \o [k \in 1..Len(enqlog) |-> <<enqlog[k].url, enqlog[k].depth>>]

\* C5: a link is one level deeper than the page it was found on, which was
\* dispatched at the depth recorded; the depths in the frontier never decrease
\* from front to back; URLs are dispatched in the order they were enqueued, so in
\* non-decreasing depth.
C5_BreadthFirst ==
    /\ \A k \in 1..Len(enqlog) :
           /\ enqlog[k].depth = enqlog[k].via_depth + 1
           /\ <<enqlog[k].via, enqlog[k].via_depth>> \in
                  {dispatched[i] : i \in 1..Len(dispatched)}
    /\ \A i, j \in 1..Len(self.queue) : i < j => self.queue[i][2] <= self.queue[j][2]
    /\ \A i, j \in 1..Len(dispatched) : i < j => dispatched[i][2] <= dispatched[j][2]
    /\ dispatched \o self.queue \in {EnqueueOrder, Tail(EnqueueOrder)}

\* four dispatches at depths 0, 1, 1, 2
C5_Witness ==
    /\ Len(dispatched) = 4
    /\ dispatched[2][2] = 1
    /\ dispatched[3][2] = 1
    /\ dispatched[4][2] = 2

\* C6: at the loop test with the deadline passed, the queue non-empty and the
\* budget not reached, the crawl returns with timed_out set; once timed_out is set
\* no GET is issued; the crawl returns only with every task of the round finished,
\* and returns early (queue non-empty, budget not reached) only with timed_out set.
C6_Deadline ==
    /\ [](self.timed_out => pc = "returned")
    /\ [](pc = "returned" => \A i \in 1..Len(tasks) : tasks[i].st = "done")
    /\ [](pc = "returned" /\ self.queue # <<>> /\ Len(pages) < self.max_pages
              => self.timed_out)
    /\ [][ /\ (/\ pc = "loop"
               /\ pc' # "loop"
               /\ elapsed > self.crawl_timeout
               /\ self.queue # <<>>
               /\ Len(pages) < self.max_pages)
              => (pc' = "returned" /\ self'.timed_out)
           /\ self.timed_out => fetched' = fetched ]_vars

\* the deadline passes during a round and cuts the crawl at the next loop test
C6_Witness ==
    /\ pc = "returned"
    /\ self.timed_out
    /\ Len(pages) >= 1
    /\ self.queue # <<>>

\* C7: no fetch outcome makes a task raise, and no exception leaves
\* crawl_with_pages.
C7_FailuresNonFatal ==
    /\ pc # "raised"
    /\ \A i \in 1..Len(tasks) : tasks[i].st # "raised"

\* C8: at the end of a round every dispatched URL has exactly one PageRecord and
\* no ErrorRecord, or no PageRecord and at least one ErrorRecord.
C8_OneTerminalRecord ==
    pc \in {"loop", "returned"} =>
        \A url \in self.visited :
            LET page_count == Cardinality({i \in 1..Len(pages) : pages[i].url = url})
                error_count ==
                    Cardinality({k \in 1..Len(self.errors) : self.errors[k].url = url})
            IN  \/ page_count = 1 /\ error_count = 0
                \/ page_count = 0 /\ error_count >= 1

\* C9: with every step that is ready taken and every GET answered,
\* crawl_with_pages eventually returns.
C9_EventuallyReturns == <>(pc = "returned")

\* crawl_with_pages eventually ends, by returning or by raising, and the visited
\* set only grows and holds at most max_pages URLs
C9_EventuallyEnds ==
    /\ <>(pc \in {"returned", "raised"})
    /\ [](Cardinality(self.visited) <= self.max_pages)
    /\ [][self.visited \subseteq self'.visited]_vars

\* C10: at most max_concurrent_requests tasks hold a permit, the permits never go
\* below zero, and no batch has more than max_concurrent_requests tasks.
C10_BoundedConcurrency ==
    /\ Cardinality({i \in 1..Len(tasks) : tasks[i].st = "fetching"})
           <= self.max_concurrent_requests
    /\ semaphore >= 0
    /\ Len(tasks) <= self.max_concurrent_requests
    /\ Len(task_urls) = Len(tasks)

\* every permit is taken while more entries wait in the frontier
C10_Witness ==
    /\ self.max_concurrent_requests = 2
    /\ Cardinality({i \in 1..Len(tasks) : tasks[i].st = "fetching"}) = 2
    /\ self.queue # <<>>

\* an allow-list is given and the host of the start URL is none of its hosts and
\* no dot-boundary subdomain of one
StartOffAllowList ==
    LET hostname == Lower(self.start_url.hostname) IN
    /\ self.allowed_hosts # <<>>
    /\ \A i \in 1..Len(self.allowed_hosts) :
           /\ hostname # self.allowed_hosts[i]
           /\ ~EndsWith(hostname, <<".">> \o self.allowed_hosts[i])

\* C11 as stated: with the start URL off the allow-list nothing is dispatched or
\* fetched, no PageRecord is collected, the crawl ends at the empty batch, and
\* timed_out is never set.
C11_AllowListNoTimeout ==
    StartOffAllowList =>
        /\ dispatched = <<>> /\ fetched = <<>> /\ self.visited = {}
        /\ pages = <<>>
        /\ pc \in {"loop", "build", "returned"}
        /\ ~self.timed_out
        /\ pc = "returned" => self.queue = <<>> /\ tasks = <<>>

\* C11: with the start URL off the allow-list nothing is dispatched or fetched
\* and no PageRecord is collected, although the start URL is on the root domain;
\* unless the deadline has passed at the first loop test, which sets timed_out,
\* the crawl ends at the empty batch with the start URL popped and timed_out unset.
C11_AllowListAuthoritative ==
    StartOffAllowList =>
        /\ dispatched = <<>> /\ fetched = <<>> /\ self.visited = {}
        /\ pages = <<>>
        /\ pc \in {"loop", "build", "returned"}
        /\ self.timed_out => elapsed > self.crawl_timeout /\ self.queue # <<>>
        /\ pc = "returned" /\ ~self.timed_out => self.queue = <<>> /\ tasks = <<>>

\* allow-list sub.x.test, start URL on x.test: the crawl has ended at the empty
\* batch with nothing fetched
C11_Witness ==
    /\ StartOffAllowList
    /\ self.start_url.hostname = self.root_domain
    /\ pc = "returned"
    /\ ~self.timed_out
    /\ self.queue = <<>>
    /\ fetched = <<>>

\* the configuration of the end-to-end scenario
ScenarioConfig ==
    /\ self.start_url = UrlRoot
    /\ self.max_pages = 5
    /\ self.max_depth = 1
    /\ ~self.include_subdomains
    /\ self.allowed_hosts = <<>>
    /\ self.path_prefixes = <<>>

\* the site of the scenario: / links to /a, /b.PNG and other.test, every other
\* page has no links, and every GET succeeds
ScenarioSite(url) ==
    IF url = UrlRoot
    THEN Response(200, "text/html; charset=utf-8", Html(<<UrlA, UrlImg, UrlOther>>))
    ELSE Response(200, "text/html; charset=utf-8", Html(<<>>))

\* every GET answered so far was answered as the site of the scenario answers
ScenarioSoFar == \A answer \in served : answer[2] = ScenarioSite(answer[1])

\* what the scenario never touches: only / and /a are dispatched or requested,
\* in that order, and /b.PNG and other.test are never enqueued
ScenarioUntouched ==
    /\ Len(dispatched) <= 2 /\ Len(fetched) <= 2
    /\ \A i \in 1..Len(dispatched) : dispatched[i] = <<<<UrlRoot, 0>>, <<UrlA, 1>>>>[i]
    /\ \A i \in 1..Len(fetched) : fetched[i] = <<UrlRoot, UrlA>>[i]
    /\ self.enqueued \subseteq {UrlRoot, UrlA}
    /\ \A i \in 1..Len(self.queue) : self.queue[i][1] \in {UrlRoot, UrlA}

RECURSIVE SectionHosts(_)
\* the hosts of the "# " lines of a document, in its order
SectionHosts(lines) ==
    IF lines = <<>> THEN <<>>
    ELSE IF Head(lines) # <<>> /\ Head(lines)[1] = "# "
    THEN <<Tail(Head(lines))>> \o SectionHosts(Tail(lines))
    ELSE SectionHosts(Tail(lines))

RECURSIVE SectionPages(_, _)
\* the bodies of the pages of a document, in its order, each with the host of the
\* section it stands in
SectionPages(lines, host) ==
    IF lines = <<>> THEN <<>>
    ELSE IF Head(lines) # <<>> /\ Head(lines)[1] = "# "
    THEN SectionPages(Tail(lines), Tail(Head(lines)))
    ELSE IF Head(lines) # <<>> /\ Head(lines)[1] = "(markdown of) "
    THEN <<[host |-> host, markdown |-> Head(lines)]>> \o SectionPages(Tail(lines), host)
    ELSE SectionPages(Tail(lines), host)

C14_NormalizeIdempotent ==
    call.fn = "_normalize_url" => \A k \in 1..Len(ret) : ret[k] = ret[1]

\* what holds of _normalize_url: the result has a scheme, https where the string
\* had none, it has no fragment and no trailing slash unless only slashes would
\* be left, and both examples give "https://example.com/a"
C14_SchemeFilledNoFragment ==
    call.fn = "_normalize_url" /\ ret # <<>> =>
        /\ call.arg # <<>> => urlparse(ret[1]).scheme # <<>>
        /\ call.arg # <<>> /\ urlparse(call.arg).scheme = <<>> =>
               StartsWith(ret[1], <<"h", "t", "t", "p", "s", ":">>)
        /\ Find(ret[1], "#") = 0
        /\ ret[1] # <<>> /\ ret[1][Len(ret[1])] = "/" =>
               \A i \in 1..Len(normalize_url_keep_slash(call.arg)) :
                   normalize_url_keep_slash(call.arg)[i] = "/"
        /\ call.arg \in {ExampleBare, ExampleNormal} => ret[1] = ExampleNormal

\* C16: whatever integers are passed to __init__, or none, the object has
\* 1 <= max_pages <= 500, max_concurrent_requests >= 1 and max_depth >= 0, a
\* value already in range being kept; _clamp_max_pages returns a value in 1..500
\* for None, 0, a negative and every other integer, a value in range being kept.
C16_ConfigurationClamped ==
    /\ call.fn = "__init__" =>
           \A k \in 1..Len(ret) :
               /\ ret[k].max_pages >= 1 /\ ret[k].max_pages <= PageCap
               /\ ret[k].max_concurrent_requests >= 1
               /\ ret[k].max_depth >= 0
               /\ ret[k] = self
               /\ LET max_pages == Passed(call.arg.max_pages, DefaultMaxPages)
                  IN  max_pages \in 1..PageCap => ret[k].max_pages = max_pages
    /\ call.fn = "_clamp_max_pages" =>
           \A k \in 1..Len(ret) :
               /\ ret[k] >= 1 /\ ret[k] <= PageCap
               /\ ~call.arg.none /\ call.arg.int \in 1..PageCap => ret[k] = call.arg.int
               /\ call.arg.none => ret[k] = 1

\* max_pages above the clamp, no concurrency and a negative depth were passed and
\* the object is constructed
C16_Witness ==
    /\ call.fn = "__init__"
    /\ ~call.arg.max_pages.none /\ call.arg.max_pages.int > PageCap
    /\ ~call.arg.max_concurrent_requests.none /\ call.arg.max_concurrent_requests.int = 0
    /\ ~call.arg.max_depth.none /\ call.arg.max_depth.int < 0
    /\ ret # <<>>
    /\ self.max_pages = PageCap

\* C15: a handler that answers a crawl with no PageRecord answers 400 and
\* persists no document.
C15_ZeroPagesRejected ==
    reply # NoReply /\ pages = <<>> =>
        /\ reply.status_code = 400
        /\ ~reply.persisted

\* what holds: /crawl-preview answers 400 exactly when the crawl gave no
\* PageRecord, and /generate never answers 400
C15_PreviewRejectsGenerateNever ==
    /\ reply.endpoint = "/crawl-preview" => (reply.status_code = 400 <=> pages = <<>>)
    /\ reply.endpoint = "/generate" => reply.status_code = 200 /\ reply.persisted

\* C17: while the round is awaited no step changes the visited set, the enqueued
\* set, the frontier, the page list or the error list, and each of them changes
\* only while the batch is built or the results are integrated.
C17_SharedStateAtRoundBoundaries ==
    [][ /\ pc \in {"gather", "raised"} =>
               /\ self'.visited = self.visited
               /\ self'.enqueued = self.enqueued
               /\ self'.queue = self.queue
               /\ pages' = pages
               /\ self'.errors = self.errors
        /\ \/ self'.visited # self.visited
           \/ self'.enqueued # self.enqueued
           \/ self'.queue # self.queue
           \/ pages' # pages
           \/ self'.errors # self.errors
           => pc \in {"build", "integrate"} ]_vars

\* what holds: the tasks in flight change neither the visited set, the enqueued
\* set, the frontier nor the page list, and the error list only grows
C17_TasksLeaveFrontierAndPages ==
    [][ /\ pc \in {"gather", "raised"} =>
               /\ self'.visited = self.visited
               /\ self'.enqueued = self.enqueued
               /\ self'.queue = self.queue
               /\ pages' = pages
        /\ Len(self'.errors) >= Len(self.errors)
        /\ self.errors = SubSeq(self'.errors, 1, Len(self.errors)) ]_vars

\* the tasks of the round that are not finished
InFlight == {i \in 1..Len(tasks) : tasks[i].st \in {"created", "fetching"}}

\* C18: a link is pushed onto the frontier, a result is integrated and a page is
\* collected only with every task of the round finished; a task is created only
\* with no task of an earlier round in flight, the tasks existing then being the
\* ones just created in the same batch; and a task starts or finishes only while
\* its round is awaited.
C18_RoundBarrier ==
    [][ /\ (enqlog' # enqlog \/ pages' # pages \/ ri' # ri) => InFlight = {}
        /\ pc \in {"loop", "integrate", "returned"} => InFlight = {}
        /\ dispatched' # dispatched =>
               /\ \A i \in 1..Len(tasks) : tasks[i].st = "created"
               /\ \A i \in 1..Len(tasks) : task_urls[i] \in
                      {dispatched[k] : k \in (Len(dispatched) - Len(tasks) + 1)..Len(dispatched)}
        /\ (\E i \in 1..Len(tasks) : i \in 1..Len(tasks') /\ tasks'[i].st # tasks[i].st)
               => pc \in {"gather", "raised"} /\ task_urls' = task_urls ]_vars

\* the second task of a round is still in flight when the first has returned a
\* page with links: nothing is pushed until both are done
C18_Witness ==
    /\ pc = "gather"
    /\ Len(tasks) = 2
    /\ tasks[1].st = "done"
    /\ tasks[1].result # <<>>
    /\ tasks[1].result[2] # <<>>
    /\ tasks[2].st = "fetching"
    /\ Len(dispatched) >= 3

\* C19: in every state the visited URLs and the URLs in the frontier are together
\* at most max_pages, a link is pushed only while they are fewer, and so at most
\* max_pages URLs are ever dispatched and at most max_pages GETs issued.
C19_KnownUrlsBudget ==
    /\ [](Cardinality(self.visited) + Len(self.queue) <= self.max_pages)
    /\ [](Len(dispatched) <= self.max_pages /\ Len(fetched) <= self.max_pages)
    /\ [][ Len(enqlog') > Len(enqlog) =>
               /\ Cardinality(self.visited) + Len(self.queue) < self.max_pages
               /\ Len(self'.queue) - Len(self.queue) = Len(enqlog') - Len(enqlog)
               /\ self'.visited = self.visited ]_vars

\* the page just integrated had a link that is allowed, within the depth and
\* not yet known, and the budget on known URLs kept it out
C19_Witness ==
    /\ pc = "integrate"
    /\ ri > 1
    /\ tasks[ri - 1].result # <<>>
    /\ Cardinality(self.visited) + Len(self.queue) = self.max_pages
    /\ Len(pages) < self.max_pages
    /\ task_urls[ri - 1][2] < self.max_depth
    /\ \E n \in 1..Len(tasks[ri - 1].result[2]) :
           tasks[ri - 1].result[2][n] \notin self.enqueued

\* C20: no URL is pushed onto the frontier twice, the start URL included; the
\* frontier holds no URL twice and none that is visited; every visited or queued
\* URL is in the enqueued set; and the visited set and the enqueued set never
\* lose an element.
C20_EnqueuedOnceMonotone ==
    /\ [](NoRepeat([k \in 1..Len(EnqueueOrder) |-> EnqueueOrder[k][1]]))
    /\ [](NoRepeat([i \in 1..Len(self.queue) |-> self.queue[i][1]]))
    /\ [](\A i \in 1..Len(self.queue) : self.queue[i][1] \notin self.visited)
    /\ [](self.visited \cup {self.queue[i][1] : i \in 1..Len(self.queue)}
              \subseteq self.enqueued)
    /\ [][ /\ self.visited \subseteq self'.visited
           /\ self.enqueued \subseteq self'.enqueued ]_vars

\* two pages of one round both link to a URL that was not known, and it has been
\* pushed once
C20_Witness ==
    /\ pc = "integrate"
    /\ ri > Len(tasks)
    /\ Len(tasks) = 2
    /\ tasks[1].result # <<>> /\ tasks[2].result # <<>>
    /\ \E n \in 1..Len(tasks[1].result[2]) :
           \E m \in 1..Len(tasks[2].result[2]) :
               /\ tasks[1].result[2][n] = tasks[2].result[2][m]
               /\ Cardinality({k \in 1..Len(enqlog) :
                                   enqlog[k].url = tasks[1].result[2][n]}) = 1

(***************************************************************************)
(* The crawl run over again from the constructor's state with the GETs     *)
(* answered one at a time, in the order of dispatch, each URL by the       *)
(* answer recorded for it in served.  A round whose URLs have no recorded  *)
(* answer was not run (the deadline had passed at line 253): the run ends  *)
(* before it.  st is [queue, visited, enqueued, pages, dispatched].        *)
(***************************************************************************)
\* the answer the GET of this URL got
ServedOf(url) == CHOOSE response \in Responses : <<url, response>> \in served

Answered(url) == \E response \in Responses : <<url, response>> \in served

RECURSIVE SequentialBatch(_, _)
\* lines 259-277: the batch loop; b is [queue, visited, task_urls]
SequentialBatch(b, n_pages) ==
    IF ~(/\ b.queue # <<>>
         /\ Len(b.task_urls) < self.max_concurrent_requests
         /\ Len(b.task_urls) + n_pages < self.max_pages)
    THEN b
    ELSE LET url == Head(b.queue)[1] IN
         IF url \in b.visited \/ ~is_allowed_url(url)
         THEN SequentialBatch([b EXCEPT !.queue = Tail(@)], n_pages)
         ELSE SequentialBatch([queue |-> Tail(b.queue),
                               visited |-> b.visited \cup {url},
                               task_urls |-> Append(b.task_urls, Head(b.queue))],
                              n_pages)

\* lines 207-218 on the visited and enqueued sets of the round
SequentialExtract(anchors, visited, enqueued) ==
    SelectSeq(anchors, LAMBDA absolute_url :
                           /\ is_allowed_url(absolute_url)
                           /\ absolute_url \notin visited
                           /\ absolute_url \notin enqueued)

\* lines 220-242: what the task of this URL returns, <<>> for None
SequentialResult(url, visited, enqueued) ==
    LET got == fetch_content(url, ServedOf(url)) IN
    IF got.raised \/ got.value.none \/ got.value.empty THEN <<>>
    ELSE <<PageRecord(url), SequentialExtract(got.value.anchors, visited, enqueued)>>

RECURSIVE SequentialAdmit(_, _, _)
\* lines 288-299: the links of one page; st.visited is the visited set
SequentialAdmit(links, depth, st) ==
    IF links = <<>> THEN st
    ELSE LET link == Head(links) IN
         IF depth + 1 > self.max_depth THEN SequentialAdmit(Tail(links), depth, st)
         ELSE IF Cardinality(st.visited) + Len(st.queue) >= self.max_pages THEN st
         ELSE IF ~is_allowed_url(link) THEN SequentialAdmit(Tail(links), depth, st)
         ELSE IF link \in st.visited \/ link \in st.enqueued
         THEN SequentialAdmit(Tail(links), depth, st)
         ELSE SequentialAdmit(Tail(links), depth,
                  [st EXCEPT !.queue = Append(@, <<link, depth + 1>>),
                             !.enqueued = @ \cup {link}])

RECURSIVE SequentialIntegrate(_, _, _)
\* lines 283-299: the loop over zip(task_urls, results)
SequentialIntegrate(task_urls_, results, st) ==
    IF task_urls_ = <<>> THEN st
    ELSE LET result == Head(results) IN
         IF result = <<>>
         THEN SequentialIntegrate(Tail(task_urls_), Tail(results), st)
         ELSE SequentialIntegrate(Tail(task_urls_), Tail(results),
                  SequentialAdmit(result[2], Head(task_urls_)[2],
                                  [st EXCEPT !.pages = Append(@, result[1])]))

RECURSIVE SequentialCrawl(_)
\* lines 252-299: the while loop
SequentialCrawl(st) ==
    IF ~(st.queue # <<>> /\ Len(st.pages) < self.max_pages) THEN st
    ELSE LET b == SequentialBatch([queue |-> st.queue, visited |-> st.visited,
                                   task_urls |-> <<>>], Len(st.pages))
         IN  IF b.task_urls = <<>> THEN st
             ELSE IF \E k \in 1..Len(b.task_urls) : ~Answered(b.task_urls[k][1]) THEN st
             ELSE LET results == [k \in 1..Len(b.task_urls) |->
                                     SequentialResult(b.task_urls[k][1],
                                                      b.visited, st.enqueued)]
                  IN  SequentialCrawl(
                          SequentialIntegrate(b.task_urls, results,
                              [st EXCEPT !.queue = b.queue,
                                         !.visited = b.visited,
                                         !.dispatched = @ \o b.task_urls]))

\* lines 73-75: the state the constructor leaves, then the crawl
SequentialRun ==
    SequentialCrawl([queue |-> <<<<self.start_url, 0>>>>, visited |-> {},
                     enqueued |-> {self.start_url}, pages |-> <<>>,
                     dispatched |-> <<>>])

\* the URLs of the dispatched entries whose URL is the URL of a page, in order
DispatchedWithPage ==
    LET PageUrls == {pages[k].url : k \in 1..Len(pages)}
        with_page == SelectSeq(dispatched, LAMBDA entry : entry[1] \in PageUrls)
    IN  [k \in 1..Len(with_page) |-> with_page[k][1]]

\* C21: whatever the order in which the fetches of a round are answered, the
\* pages returned and the (URL, depth) entries dispatched are those of the run
\* that answers the fetches one at a time in dispatch order with the same answer
\* for each URL; each URL has one answer; the pages are in dispatch order; while
\* a round is awaited, what a finished task returns is the page of its own URL
\* and the links of its own answer, and is no other task's doing.
C21_OrderIndependent ==
    /\ \A a, b \in served : a[1] = b[1] => a = b
    /\ pc \in {"loop", "returned"} =>
           LET run == SequentialRun
           IN  /\ pages = run.pages
               /\ dispatched = run.dispatched
               /\ [k \in 1..Len(pages) |-> pages[k].url] = DispatchedWithPage
    /\ pc = "gather" =>
           \A i \in 1..Len(tasks) :
               tasks[i].st = "done" =>
                   /\ Answered(task_urls[i][1])
                   /\ tasks[i].result =
                          process_url(task_urls[i][1], ServedOf(task_urls[i][1])).result
                   /\ tasks[i].result # <<>> => tasks[i].result[1].url = task_urls[i][1]

\* the second task of a round was answered before the first, with a page and
\* links, and pages of an earlier round have been collected
C21_Witness ==
    /\ pc = "gather"
    /\ Len(tasks) = 2
    /\ tasks[1].st = "fetching"
    /\ tasks[2].st = "done"
    /\ tasks[2].result # <<>>
    /\ tasks[2].result[2] # <<>>
    /\ pages # <<>>

====
